---- MODULE Spec2Model ----
\* Model of iot-client/device_client.py: the asyncio loop (main, the periodic
\* storage task, the cleanup task, process_event) and the Flask request
\* thread (test_telemetry) sharing the module-level dictionaries and the
\* telemetry_data table.
EXTENDS Integers, Sequences, FiniteSets, TLC

\* ------------------------------------------------------------------ bounds
MaxInputs == 2          \* clock advances, stream events and test posts in
                        \* one run of Spec
MaxDayTicks == 3        \* clock advances in one run of SpecDays
MaxDayEvents == 2       \* stream events in one run of SpecDays
MaxReadInputs == 3      \* clock advances, stream events and reads in one
                        \* run of SpecReads
StartTime == 10         \* clock value at process start
MaxRateInputs == 4      \* clock advances and stream events in one run of
                        \* SpecRate
MaxManageSteps == 3     \* clock advances and calls in one run of SpecManage
MaxAbsoluteDay == 4     \* greatest absolute day SpecManage starts from
MaxRequests == 2        \* requests and clock advances in one run of
                        \* SpecBackend
StartUtc == 2           \* backend clock at start, hours
MaxRingTicks == 4       \* clock advances in one run of SpecRing
MaxRingEvents == 2      \* stream events in one run of SpecRing
MaxLiveTicks == 2       \* clock advances in one run of SpecLive
MaxLiveEvents == 2      \* stream events in one run of SpecLive

\* ------------------------------------------------------- program constants
DAY_DURATION_SECONDS == 120
StorageInterval == 5
StorageSleep == 1
StorageErrorSleep == 5
CleanupSleep == 60
valid_days == {1, 2, 3}

Devices == {"D1", "D2"}
RegistryIds == {"D1", "D2", "D3"}
NoDevice == "none"

\* ------------------------------------------------------------ JSON values
\* A JSON value is tagged with its type: an array of numbers, a number, or
\* a string.
Arr(s) == [t |-> "arr", v |-> s]
Num(n) == [t |-> "num", v |-> <<n>>]
Str == [t |-> "str", v |-> <<>>]
EmptyList == Arr(<<>>)

ArrayKeys == {"voltages", "currents", "frequency", "power"}
ScalarKeys == {"voltage", "current", "freq", "pwr"}

\* dict.get(key, default)
Get(d, k, default) == IF k \in DOMAIN d THEN d[k] ELSE default

\* Python truthiness of a JSON value
Truthy(x) ==
  CASE x.t = "arr" -> x.v # <<>>
    [] x.t = "num" -> x.v # <<0>>
    [] OTHER -> FALSE

\* The payloads the stream and the test endpoint deliver.  json = FALSE is a
\* body that json.loads rejects.
Body1 == [voltages |-> Arr(<<1>>), currents |-> Arr(<<1>>)]
Body3 == [voltage |-> Num(3), pwr |-> Num(3)]
BodyBadScalar == [voltage |-> Num(3), current |-> Str]
BodyOther == [temperature |-> Num(4)]
Payloads ==
  { [json |-> TRUE, body |-> Body1],
    [json |-> TRUE, body |-> Body3],
    [json |-> TRUE, body |-> BodyBadScalar],
    [json |-> FALSE, body |-> BodyOther] }

\* ---------------------------------------------------------------- decode
\* line 333: any of the array fields present
IsStructured(b) == \E k \in ArrayKeys : k \in DOMAIN b

\* float(x) raises on anything but a number
FloatRaises(x) == x.t # "num"

\* lines 343-357: [float(telemetry_data[key])] or []
Single(b, k) == IF k \in DOMAIN b THEN Arr(b[k].v) ELSE EmptyList

\* variant: a failing float() is not noticed before the stores
DecodeRaisesJsonOnly(p) == ~p.json

\* lines 329-357: does process_event raise before it stores anything
DecodeRaises(p) ==
  \/ ~p.json
  \/ /\ ~IsStructured(p.body)
     /\ \E k \in ScalarKeys : k \in DOMAIN p.body /\ FloatRaises(p.body[k])

\* lines 360-368, 390-398: the readings written to device_telemetry_data
LiveReadings(b) ==
  IF IsStructured(b)
  THEN [voltages |-> Get(b, "voltages", EmptyList),
        currents |-> Get(b, "currents", EmptyList),
        frequency |-> Get(b, "frequency", EmptyList),
        power |-> Get(b, "power", EmptyList)]
  ELSE [voltages |-> Single(b, "voltage"),
        currents |-> Single(b, "current"),
        frequency |-> Single(b, "freq"),
        power |-> Single(b, "pwr")]

\* lines 371-376, 404: the element appended to telemetry_buffer
BufferElement(b) == IF IsStructured(b) THEN b ELSE LiveReadings(b)

\* lines 297-300: the reading columns of the inserted row
RowReadings(sample) ==
  [voltages |-> Get(sample, "voltages", EmptyList),
   currents |-> Get(sample, "currents", EmptyList),
   frequency |-> Get(sample, "frequency", EmptyList),
   power |-> Get(sample, "power", EmptyList)]

\* ------------------------------------------------------------------ table
\* A row of telemetry_data (lines 37-48).
Row(id, d, day, ts, readings) ==
  [id |-> id, device_id |-> d, day_number |-> day, timestamp |-> ts,
   readings |-> readings]

OldReadings == RowReadings(Body1)
\* Rows a previous run may have left in the table.
OldRows ==
  { Row(1, "D1", 1, 1, OldReadings),
    Row(2, "D1", 1, 2, OldReadings),
    Row(3, "D1", 4, 3, OldReadings),
    Row(4, "D2", 2, 4, OldReadings),
    Row(5, "D2", 2, 5, OldReadings) }
FirstId == 6

\* filter(device_id == d, ~day_number.in_(valid_days))
InvalidRows(S, d) ==
  {r \in S : r.device_id = d /\ r.day_number \notin valid_days}

\* filter(device_id == d, day_number == day)
DayRecords(S, d, day) ==
  {r \in S : r.device_id = d /\ r.day_number = day}

\* order_by(timestamp).all()[-1]
Newest(R) == CHOOSE r \in R : \A q \in R : q.timestamp <= r.timestamp

\* lines 144-160: delete the rows of d with an invalid day number
CleanInvalid(S, d) == S \ InvalidRows(S, d)

\* variant: day_records[0] is kept
CleanDayKeepOldest(S, d, day_num) ==
  LET day_records == DayRecords(S, d, day_num)
      oldest == CHOOSE r \in day_records :
                  \A q \in day_records : r.timestamp <= q.timestamp
  IN IF Cardinality(day_records) > 1
     THEN S \ {r \in day_records : r.id # oldest.id}
     ELSE S

\* lines 163-183: keep only the newest row of d for day_num
CleanDay(S, d, day_num) ==
  LET day_records == DayRecords(S, d, day_num)
  IN IF Cardinality(day_records) > 1
     THEN S \ {r \in day_records : r.id # Newest(day_records).id}
     ELSE S

\* lines 163-183: the loop over valid_days
CleanDays(S, d) == CleanDay(CleanDay(CleanDay(S, d, 1), d, 2), d, 3)

\* variant: the duplicate check is skipped when invalid rows were deleted
CleanupDeviceOneFix(S, d) ==
  IF InvalidRows(S, d) # {} THEN CleanInvalid(S, d) ELSE CleanDays(S, d)

\* lines 142-183: the body of the loop over devices
CleanupDevice(S, d) == CleanDays(CleanInvalid(S, d), d)

\* line 139-140: the devices that have rows
DevicesOf(S) == {r.device_id : r \in S}

RECURSIVE CleanupOver(_, _)
CleanupOver(S, ds) ==
  IF ds = {} THEN S
  ELSE LET d == CHOOSE x \in ds : TRUE
       IN CleanupOver(CleanupDevice(S, d), ds \ {d})

\* lines 135-185: one complete pass
CleanupPass(S) == CleanupOver(S, DevicesOf(S))

\* ------------------------------------------------------- day tracking
NoTrack == [tracked |-> FALSE, start_time |-> 0, current_day |-> 0,
            absolute_day |-> 0]

\* variant: the absolute day is counted from 0
InitTrackFromZero(info, t) ==
  IF info.tracked THEN info
  ELSE [tracked |-> TRUE, start_time |-> t, current_day |-> 1,
        absolute_day |-> 0]

\* lines 230-235
InitTrack(info, t) ==
  IF info.tracked THEN info
  ELSE [tracked |-> TRUE, start_time |-> t, current_day |-> 1,
        absolute_day |-> 1]

\* variant: the production day length of the comment on line 89
DaysElapsedProduction(elapsed_seconds) == elapsed_seconds \div 86400

\* line 241: int(elapsed_seconds / DAY_DURATION_SECONDS)
DaysElapsed(elapsed_seconds) == elapsed_seconds \div DAY_DURATION_SECONDS

\* variant: the day is restarted at the time of the flush
AdvanceTrackToNow(info, t) ==
  LET days_elapsed == DaysElapsed(t - info.start_time)
  IN IF days_elapsed > 0
     THEN [info EXCEPT
             !.start_time = t,
             !.absolute_day = @ + days_elapsed]
     ELSE info

\* lines 246-249: day_info after the elapsed days are accounted for
AdvanceTrack(info, t) ==
  LET days_elapsed == DaysElapsed(t - info.start_time)
  IN IF days_elapsed > 0
     THEN [info EXCEPT
             !.start_time = @ + days_elapsed * DAY_DURATION_SECONDS,
             !.absolute_day = @ + days_elapsed]
     ELSE info

\* variant: the modulo taken without the shift by one
CurrentDayUnshifted(absolute_day) == (absolute_day % 3) + 1

\* lines 253, 268
CurrentDay(absolute_day) == ((absolute_day - 1) % 3) + 1

\* variant: the deletion starts one day late
RingDeletedLate(S, d, days_elapsed, absolute_day) ==
  IF days_elapsed > 0 /\ absolute_day > 4
  THEN DayRecords(S, d, CurrentDay(absolute_day))
  ELSE {}

\* lines 258-263: rows deleted because their slot is reused
RingDeleted(S, d, days_elapsed, absolute_day) ==
  IF days_elapsed > 0 /\ absolute_day > 3
  THEN DayRecords(S, d, CurrentDay(absolute_day))
  ELSE {}

\* variant: without the safety check of lines 270-286
ManageCommitUnchecked(S, d, info, sample, t, id) ==
  LET info0 == InitTrack(info, t)
      days_elapsed == DaysElapsed(t - info0.start_time)
      info1 == AdvanceTrack(info0, t)
      current_day == CurrentDay(info1.absolute_day)
      S1 == S \ RingDeleted(S, d, days_elapsed, info1.absolute_day)
  IN S1 \cup {Row(id, d, current_day, t, RowReadings(sample))}

\* lines 225-308: the table as manage_rolling_data commits it
ManageCommit(S, d, info, sample, t, id) ==
  LET info0 == InitTrack(info, t)
      days_elapsed == DaysElapsed(t - info0.start_time)
      info1 == AdvanceTrack(info0, t)
      current_day == CurrentDay(info1.absolute_day)
      S1 == S \ RingDeleted(S, d, days_elapsed, info1.absolute_day)
      S2 == CleanInvalid(S1, d)
  IN S2 \cup {Row(id, d, current_day, t, RowReadings(sample))}

\* ------------------------------------------------------------------ state
VARIABLES
  now,                    \* wall clock, seconds
  store,                  \* rows of telemetry_data
  nextId,                 \* next primary key
  device_telemetry_data,  \* line 70: LiveView per device
  telemetry_buffer,       \* line 83: the list buffered per device
  bufKeys,                \* keys of telemetry_buffer, in insertion order
  last_storage_time,      \* line 80, read with .get(device_id, 0)
  day_start_times,        \* line 86
  apc,                    \* where the asyncio thread is
  current_time,           \* periodic_storage_task: line 96
  items,                  \* periodic_storage_task: rest of the line 99 loop
  p_wake,                 \* periodic_storage_task: end of its sleep
  c_wake,                 \* cleanup_task: end of its sleep
  ev,                     \* process_event: decoded_device_id and the sample
  fpc,                    \* where the Flask thread is
  req,                    \* test_telemetry: device_id and the sample
  nEvents,                \* events and requests delivered so far
  response,               \* the reply a read endpoint is about to return
  env,                    \* the environment load_env_variables reads
  registry,               \* registration API: status per device id
  default_device,         \* registration API: the default device
  reg_reply,              \* registration API: outcome of the last call
  listing,                \* registration API: the last ListDevices result
  registered,             \* history: ids registered and not unregistered
                          \* since (now), ids unregistered at some time (gone)
  measurements,           \* backend: rows of the measurements table
  next_measurement_id,    \* backend: next value of the id sequence
  utcnow,                 \* backend: datetime.now(timezone.utc), hours
  api_request,            \* backend: endpoint and header of the last request
  api_response,           \* backend: the reply to the last request
  db_session,             \* backend: the get_db session of the last request
  nRequests,              \* backend: requests and clock advances so far
  lastFlush,              \* history: the flush in progress in this loop
  lastCleanup,            \* history: the latest cleanup pass
  trackStart,             \* history: when day tracking began (line 232)
  ingest,                 \* history: events dropped, and buffered after one
  checkpoint              \* the event of the last update_checkpoint (line 407)

vars == <<now, store, nextId, device_telemetry_data, telemetry_buffer,
          bufKeys, last_storage_time, day_start_times, apc, current_time,
          items, p_wake, c_wake, ev, fpc, req, nEvents, response, env,
          registry, default_device, reg_reply, listing, registered,
          measurements, next_measurement_id, utcnow, api_request,
          api_response, db_session, nRequests,
          lastFlush, lastCleanup, trackStart, ingest, checkpoint>>

registryVars == <<registry, default_device, reg_reply, listing, registered>>

backendVars == <<measurements, next_measurement_id, utcnow, api_request,
                 api_response, db_session, nRequests>>

NoView == [present |-> FALSE, readings |-> RowReadings(BodyOther),
           timestamp |-> 0, isConnected |-> FALSE]
NoLocal == [dev |-> NoDevice, sample |-> BodyOther]
NoFlush == [dev |-> NoDevice, seen |-> <<>>, outcome |-> "none",
            days_elapsed |-> 0, absolute_day |-> 0, rows |-> {},
            deleted |-> {}, batch |-> <<>>, cleared |-> FALSE]
NoCleanup == [by |-> "none", removed |-> 0, passes |-> 0, before |-> 0]
NoResponse == [kind |-> "none", status |-> 0]
NoApiRequest == [endpoint |-> "none", header |-> [present |-> FALSE, value |-> ""]]
NoApiResponse == [endpoint |-> "none", status |-> 0, body |-> <<>>]

\* ------------------------------------------------------------ configuration
\* lines 199, 205-209
required_parts == {"Endpoint", "SharedAccessKeyName", "SharedAccessKey",
                   "EntityPath"}
required_vars == {"EVENTHUB_CONNECTION_STRING", "CONSUMER_GROUP", "DEVICE_ID"}

\* An environment: the variables that are set and non-empty, and the keys
\* of the key=value parts of the connection string.
Environment(set_vars, parts) == [vars |-> set_vars, parts |-> parts]

Environments ==
  { Environment(required_vars, required_parts),
    Environment(required_vars \ {"DEVICE_ID"}, required_parts),
    Environment(required_vars \ {"CONSUMER_GROUP"}, required_parts),
    Environment(required_vars \ {"EVENTHUB_CONNECTION_STRING"}, {}),
    Environment(required_vars, required_parts \ {"EntityPath"}),
    Environment(required_vars, required_parts \ {"Endpoint"}) }

\* variant: DEVICE_ID is not among the required variables
MissingVarsWithoutDeviceId(e) == (required_vars \ {"DEVICE_ID"}) \ e.vars

\* line 212
MissingVars(e) == required_vars \ e.vars

\* lines 194-201
validate_connection_string(e) ==
  /\ "EVENTHUB_CONNECTION_STRING" \in e.vars
  /\ \A key \in required_parts : key \in e.parts

\* lines 203-220: does load_env_variables raise ValueError
load_env_variables_raises(e) ==
  \/ MissingVars(e) # {}
  \/ ~validate_connection_string(e)

\* ------------------------------------------------ backend: measurements API
\* backend/app: the FastAPI router of the measurements endpoints, its API-key
\* dependency and the measurements table. Instants are whole hours; a float
\* is the text of its value and None is the text "null".
None == "null"
API_KEY == "Xj7Bq9Lp2Rt5Zk8Mn3Vx6Hs1"

\* the X-API-Key header of a request: absent, or present with some value
Headers ==
  {[present |-> FALSE, value |-> ""],
   [present |-> TRUE, value |-> API_KEY],
   [present |-> TRUE, value |-> "Xj7Bq9Lp2Rt5Zk8Mn3Vx6Hs"]}

\* variant: any key that is sent is accepted
get_api_key_present(h) == h.present

\* deps.py lines 5-27: does the dependency return (TRUE) or raise 403; with
\* auto_error=False a missing header reaches the comparison as None
get_api_key(h) == h.present /\ h.value = API_KEY

PhaseColumns == 1..7
NullPhase == [v |-> None, i |-> None, p |-> None, f |-> None, pf |-> None]
PhaseFull ==
  [v |-> "220.5", i |-> "5.2", p |-> "1144.5", f |-> "50.0", pf |-> "0.99"]
PhaseNoPf == [PhaseFull EXCEPT !.pf = None]
PhaseNoV == [PhaseFull EXCEPT !.v = None]

\* the valid create requests: a device, an instant, 1 to 7 phases
PhaseLists == {<<PhaseFull>>, <<PhaseFull, PhaseNoPf>>, <<PhaseNoV, PhaseFull>>}
EnqueuedTimes == {StartUtc - 1, StartUtc, StartUtc + 1}
MeasurementCreate ==
  [device_id : Devices, enqueued_time : EnqueuedTimes, phases : PhaseLists]
Hours == {-1, 0, 1, 2}

\* lines 45-54 and map_phase_data: the columns v1..pf7 of the new row
PhaseData(phases) ==
  [n \in PhaseColumns |-> IF n <= Len(phases) THEN phases[n] ELSE NullPhase]

\* measurements a previous run left in the table: two of D1, the earlier
\* one inserted last
OldMeasurements ==
  { [id |-> 1, device_id |-> "D1", enqueued_time |-> StartUtc,
     created_at |-> StartUtc - 1, cols |-> PhaseData(<<PhaseFull>>)],
    [id |-> 2, device_id |-> "D1", enqueued_time |-> StartUtc - 1,
     created_at |-> StartUtc - 1, cols |-> PhaseData(<<PhaseFull, PhaseNoPf>>)] }

\* the state after construction, but for the two tables and the day
\* tracking
InitProcess ==
  /\ now = StartTime
  /\ nextId = FirstId
  /\ device_telemetry_data = [d \in Devices |-> NoView]
  /\ telemetry_buffer = [d \in Devices |-> <<>>]
  /\ bufKeys = <<>>
  /\ last_storage_time = [d \in Devices |-> 0]
  /\ apc = "boot"
  /\ current_time = 0
  /\ items = <<>>
  /\ p_wake = 0
  /\ c_wake = 0
  /\ ev = NoLocal
  /\ fpc = "idle"
  /\ req = NoLocal
  /\ nEvents = 0
  /\ response = NoResponse
  /\ env \in Environments
  /\ registry = [d \in RegistryIds |-> "Unregistered"]
  /\ default_device = NoDevice
  /\ reg_reply = "none"
  /\ listing = {}
  /\ registered = [now |-> {}, gone |-> {}]
  /\ next_measurement_id = Cardinality(OldMeasurements) + 1
  /\ utcnow = StartUtc
  /\ api_request = NoApiRequest
  /\ api_response = NoApiResponse
  /\ db_session = "none"
  /\ nRequests = 0
  /\ lastFlush = NoFlush
  /\ lastCleanup = NoCleanup
  /\ trackStart = [d \in Devices |-> 0]
  /\ ingest = [dropped |-> 0, later |-> 0]
  /\ checkpoint = NoLocal

Init ==
  /\ InitProcess
  /\ store \in {{}, OldRows}
  /\ day_start_times = [d \in Devices |-> NoTrack]
  /\ measurements = {}

InSeq(x, s) == \E i \in 1..Len(s) : s[i] = x

\* dict assignment telemetry_buffer[d] = []: a new key goes last
WithKey(keys, d) == IF InSeq(d, keys) THEN keys ELSE Append(keys, d)

\* ------------------------------------------------------------------ clock
\* The clock advances by a storage interval or by a day.
TickSteps == {StorageInterval, DAY_DURATION_SECONDS}

\* number of advances that led to time t
TicksAt(t) ==
  ((t - StartTime) \div DAY_DURATION_SECONDS)
    + (((t - StartTime) % DAY_DURATION_SECONDS) \div StorageInterval)

\* clock advances and messages so far, against the bound of Spec
MoreInputs == TicksAt(now) + nEvents < MaxInputs

MoreReadInputs == TicksAt(now) + nEvents < MaxReadInputs

\* Handlers run between two readings of the clock, and a task whose sleep
\* is over runs before the clock advances again.
Tick(more) ==
  /\ apc = "idle"
  /\ fpc = "idle"
  /\ now < p_wake
  /\ now < c_wake
  /\ more
  /\ \E dt \in TickSteps : now' = now + dt
  /\ UNCHANGED <<trackStart, ingest, checkpoint>>
  /\ UNCHANGED <<store, nextId, device_telemetry_data, telemetry_buffer,
                 bufKeys, last_storage_time, day_start_times, apc,
                 current_time, items, p_wake, c_wake, ev, fpc, req, nEvents,
                 lastFlush, lastCleanup>>
  /\ UNCHANGED <<response, env>>
  /\ UNCHANGED <<registryVars, backendVars>>

\* The clock of SpecRate: a second or a storage interval passes while the
\* process is idle, or while a pass of periodic_storage_task that has read
\* its clock (line 96) is in its loop, where manage_rolling_data reads the
\* clock again (line 226).
MoreRateInputs == nEvents < MaxRateInputs

RateTick ==
  /\ fpc = "idle"
  /\ \/ apc = "idle" /\ now < p_wake /\ now < c_wake
     \/ apc = "p_scan"
  /\ MoreRateInputs
  /\ nEvents' = nEvents + 1
  /\ \E dt \in {StorageSleep, StorageInterval} : now' = now + dt
  /\ UNCHANGED <<trackStart, ingest, checkpoint>>
  /\ UNCHANGED <<store, nextId, device_telemetry_data, telemetry_buffer,
                 bufKeys, last_storage_time, day_start_times, apc,
                 current_time, items, p_wake, c_wake, ev, fpc, req,
                 lastFlush, lastCleanup>>
  /\ UNCHANGED <<response, env>>
  /\ UNCHANGED <<registryVars, backendVars>>

\* ------------------------------------------------------------------- main
\* lines 712-713, 793-795: load_env_variables raises, main logs and raises
\* again, asyncio.run ends and the process exits with its daemon thread.
MainConfigError ==
  /\ apc = "boot"
  /\ load_env_variables_raises(env)
  /\ apc' = "exited"
  /\ UNCHANGED <<now, store, nextId, device_telemetry_data, telemetry_buffer,
                 bufKeys, last_storage_time, day_start_times, current_time,
                 items, p_wake, c_wake, ev, fpc, req, nEvents, response, env,
                 lastFlush, lastCleanup, trackStart, ingest, checkpoint>>
  /\ UNCHANGED <<registryVars, backendVars>>

\* lines 138-183, 734-779: the stores a pass that raises may leave behind;
\* every delete is committed on its own.
PartialCleanups(S) ==
  {S} \cup {CleanInvalid(S, d) : d \in DevicesOf(S)}
      \cup {CleanupDevice(S, d) : d \in DevicesOf(S)}

\* lines 709-789 with a valid configuration: the two tasks are created, the
\* initial cleanup runs, then main awaits client.receive.  When a statement
\* of the initial cleanup raises, lines 793-795 end the process.
MainStart(ok) ==
  /\ apc = "boot"
  /\ ~load_env_variables_raises(env)
  /\ IF ok
     THEN /\ apc' = "idle"
          /\ store' = CleanupPass(store)
          /\ lastCleanup' = [by |-> "main",
                             removed |-> Cardinality(store \ CleanupPass(store)),
                             passes |-> 1, before |-> 0]
     ELSE /\ apc' = "exited"
          /\ store' \in PartialCleanups(store)
          /\ lastCleanup' = [lastCleanup EXCEPT !.passes = 0]
  /\ UNCHANGED <<trackStart, ingest, checkpoint>>
  /\ UNCHANGED <<now, nextId, device_telemetry_data, telemetry_buffer,
                 bufKeys, last_storage_time, day_start_times, current_time,
                 items, p_wake, c_wake, ev, fpc, req, nEvents, lastFlush>>
  /\ UNCHANGED <<response, env>>
  /\ UNCHANGED <<registryVars, backendVars>>

\* ----------------------------------------------------------- cleanup_task
\* lines 131-192: a pass, then the sleep; when a statement of the pass
\* raises, lines 190-192 log it and sleep as well.
CleanupRun(ok) ==
  /\ apc = "idle"
  /\ now >= c_wake
  /\ IF ok
     THEN /\ store' = CleanupPass(store)
          /\ lastCleanup' =
               [by |-> "task",
                removed |-> Cardinality(store \ CleanupPass(store)),
                passes |-> IF lastCleanup.passes = 0 THEN 1 ELSE 2,
                before |-> IF lastCleanup.passes = 0 THEN 0
                           ELSE lastCleanup.removed]
     ELSE /\ store' \in PartialCleanups(store)
          /\ lastCleanup' = [lastCleanup EXCEPT !.passes = 0]
  /\ c_wake' = now + CleanupSleep
  /\ UNCHANGED <<trackStart, ingest, checkpoint>>
  /\ UNCHANGED <<now, nextId, device_telemetry_data, telemetry_buffer,
                 bufKeys, last_storage_time, day_start_times, apc,
                 current_time, items, p_wake, ev, fpc, req, nEvents,
                 lastFlush>>
  /\ UNCHANGED <<response, env>>
  /\ UNCHANGED <<registryVars, backendVars>>

\* ------------------------------------------------- periodic_storage_task
\* line 99: list(telemetry_buffer.items()) holds references to the lists;
\* an entry is orphaned when its key is given a new list meanwhile.
Snapshot(keys) ==
  [i \in 1..Len(keys) |-> [dev |-> keys[i], orphan |-> FALSE, list |-> <<>>]]

\* the list the loop variable `buffer` refers to
BufferOf(item) ==
  IF item.orphan THEN item.list ELSE telemetry_buffer[item.dev]

\* variant: a device is due in every pass
DueEveryPass(t, last_time) == t >= StorageInterval

\* line 106
Due(t, last_time) == t - last_time >= StorageInterval

\* lines 94-99
PeriodicWake ==
  /\ apc = "idle"
  /\ now >= p_wake
  /\ current_time' = now
  /\ items' = Snapshot(bufKeys)
  /\ apc' = "p_scan"
  /\ UNCHANGED <<trackStart, ingest, checkpoint>>
  /\ UNCHANGED <<now, store, nextId, device_telemetry_data, telemetry_buffer,
                 bufKeys, last_storage_time, day_start_times, p_wake, c_wake,
                 ev, fpc, req, nEvents, lastFlush, lastCleanup>>
  /\ UNCHANGED <<response, env>>
  /\ UNCHANGED <<registryVars, backendVars>>

\* variant: the storage time is stamped before the buffer is looked at
PeriodicSkipStamped ==
  /\ apc = "p_scan"
  /\ items # <<>>
  /\ LET it == Head(items)
     IN \/ BufferOf(it) = <<>>
        \/ ~Due(current_time, last_storage_time[it.dev])
  /\ items' = Tail(items)
  /\ last_storage_time' =
       [last_storage_time EXCEPT ![Head(items).dev] = current_time]
  /\ UNCHANGED <<trackStart, ingest, checkpoint>>
  /\ UNCHANGED <<now, store, nextId, device_telemetry_data, telemetry_buffer,
                 bufKeys, day_start_times, apc,
                 current_time, p_wake, c_wake, ev, fpc, req, nEvents,
                 lastFlush, lastCleanup>>
  /\ UNCHANGED <<response, env>>
  /\ UNCHANGED <<registryVars, backendVars>>

\* lines 100-106: an empty buffer, or one stored less than 5 seconds ago
PeriodicSkip ==
  /\ apc = "p_scan"
  /\ items # <<>>
  /\ LET it == Head(items)
     IN \/ BufferOf(it) = <<>>
        \/ ~Due(current_time, last_storage_time[it.dev])
  /\ items' = Tail(items)
  /\ UNCHANGED <<trackStart, ingest, checkpoint>>
  /\ UNCHANGED <<now, store, nextId, device_telemetry_data, telemetry_buffer,
                 bufKeys, last_storage_time, day_start_times, apc,
                 current_time, p_wake, c_wake, ev, fpc, req, nEvents,
                 lastFlush, lastCleanup>>
  /\ UNCHANGED <<response, env>>
  /\ UNCHANGED <<registryVars, backendVars>>

\* lines 110-113 and manage_rolling_data (222-314).  outcome "commit": line
\* 308 succeeds.  "rollback": a statement of the session fails, lines 310-312
\* roll back and the function returns normally.  "raise": the rollback fails
\* too and the exception reaches line 124.
PeriodicStore(outcome) ==
  /\ apc = "p_scan"
  /\ items # <<>>
  /\ LET it == Head(items)
         device_id == it.dev
         buffer == BufferOf(it)
     IN /\ buffer # <<>>
        /\ Due(current_time, last_storage_time[device_id])
        /\ LET latest_data == buffer[Len(buffer)]
               info0 == InitTrack(day_start_times[device_id], now)
               info1 == AdvanceTrack(info0, now)
               committed == ManageCommit(store, device_id,
                              day_start_times[device_id], latest_data, now,
                              nextId)
           IN /\ day_start_times' =
                   [day_start_times EXCEPT ![device_id] = info1]
              /\ trackStart' =
                   [trackStart EXCEPT ![device_id] =
                      IF day_start_times[device_id].tracked THEN @ ELSE now]
              /\ lastFlush' =
                   [dev |-> device_id, seen |-> buffer,
                    outcome |-> outcome,
                    days_elapsed |-> DaysElapsed(now - info0.start_time),
                    absolute_day |-> info1.absolute_day,
                    rows |-> IF outcome = "commit"
                             THEN committed \ store ELSE {},
                    deleted |-> IF outcome = "commit"
                                THEN store \ committed ELSE {},
                    batch |-> <<>>, cleared |-> FALSE]
              /\ IF outcome = "commit"
                 THEN /\ store' = committed
                      /\ nextId' = nextId + 1
                      /\ lastCleanup' = [lastCleanup EXCEPT !.passes = 0]
                 ELSE UNCHANGED <<store, nextId, lastCleanup>>
  /\ IF outcome = "raise"
     THEN \* lines 124-126
          /\ apc' = "idle"
          /\ items' = <<>>
          /\ p_wake' = now + StorageErrorSleep
     ELSE /\ apc' = "p_clear"
          /\ UNCHANGED <<items, p_wake>>
  /\ UNCHANGED <<ingest, checkpoint>>
  /\ UNCHANGED <<now, device_telemetry_data, telemetry_buffer, bufKeys,
                 last_storage_time, current_time, c_wake, ev, fpc, req,
                 nEvents>>
  /\ UNCHANGED <<response, env>>
  /\ UNCHANGED <<registryVars, backendVars>>

\* lines 116-119
PeriodicClear ==
  /\ apc = "p_clear"
  /\ LET device_id == Head(items).dev
     IN /\ last_storage_time' =
             [last_storage_time EXCEPT ![device_id] = current_time]
        /\ telemetry_buffer' = [telemetry_buffer EXCEPT ![device_id] = <<>>]
        /\ lastFlush' = [lastFlush EXCEPT
                           !.batch = telemetry_buffer[device_id],
                           !.cleared = TRUE]
  /\ items' = Tail(items)
  /\ apc' = "p_scan"
  /\ UNCHANGED <<trackStart, ingest, checkpoint>>
  /\ UNCHANGED <<now, store, nextId, device_telemetry_data, bufKeys,
                 day_start_times, current_time, p_wake, c_wake, ev, fpc, req,
                 nEvents, lastCleanup>>
  /\ UNCHANGED <<response, env>>
  /\ UNCHANGED <<registryVars, backendVars>>

\* line 122
PeriodicSleep ==
  /\ apc = "p_scan"
  /\ items = <<>>
  /\ apc' = "idle"
  /\ p_wake' = now + StorageSleep
  /\ lastFlush' = NoFlush
  /\ current_time' = 0
  /\ UNCHANGED <<trackStart, ingest, checkpoint>>
  /\ UNCHANGED <<now, store, nextId, device_telemetry_data, telemetry_buffer,
                 bufKeys, last_storage_time, day_start_times, items, c_wake,
                 ev, fpc, req, nEvents, lastCleanup>>
  /\ UNCHANGED <<response, env>>
  /\ UNCHANGED <<registryVars, backendVars>>

\* ----------------------------------------------------------- process_event
View(readings, t) ==
  [present |-> TRUE, readings |-> readings, timestamp |-> t,
   isConnected |-> TRUE]

\* variant: the checkpoint is written as soon as the device id is known
EventReceiveCheckpointed(dev, p, more) ==
  /\ apc = "idle"
  /\ more
  /\ nEvents' = nEvents + 1
  /\ IF dev = NoDevice \/ DecodeRaises(p)
     THEN /\ UNCHANGED <<device_telemetry_data, ev, apc>>
          /\ ingest' = IF dev = NoDevice THEN ingest
                       ELSE [ingest EXCEPT !.dropped = @ + 1]
     ELSE /\ ingest' = ingest
          /\ device_telemetry_data' =
               [device_telemetry_data EXCEPT
                  ![dev] = View(LiveReadings(p.body), now)]
          /\ ev' = [dev |-> dev, sample |-> BufferElement(p.body)]
          /\ apc' = "e_check"
  /\ UNCHANGED trackStart
  /\ checkpoint' = IF dev = NoDevice THEN checkpoint
                   ELSE [dev |-> dev, sample |-> BufferElement(p.body)]
  /\ UNCHANGED <<now, store, nextId, telemetry_buffer, bufKeys,
                 last_storage_time, day_start_times, current_time, items,
                 p_wake, c_wake, fpc, req, lastFlush, lastCleanup>>
  /\ UNCHANGED <<response, env>>
  /\ UNCHANGED <<registryVars, backendVars>>

\* lines 318-398: an event without device id, or whose decoding raises, is
\* logged and changes nothing; otherwise the LiveView is updated.
EventReceive(dev, p, more) ==
  /\ apc = "idle"
  /\ more
  /\ nEvents' = nEvents + 1
  /\ IF dev = NoDevice \/ DecodeRaises(p)
     THEN /\ UNCHANGED <<device_telemetry_data, ev, apc>>
          /\ ingest' = IF dev = NoDevice THEN ingest
                       ELSE [ingest EXCEPT !.dropped = @ + 1]
     ELSE /\ ingest' = ingest
          /\ device_telemetry_data' =
               [device_telemetry_data EXCEPT
                  ![dev] = View(LiveReadings(p.body), now)]
          /\ ev' = [dev |-> dev, sample |-> BufferElement(p.body)]
          /\ apc' = "e_check"
  /\ UNCHANGED trackStart
  /\ UNCHANGED checkpoint
  /\ UNCHANGED <<now, store, nextId, telemetry_buffer, bufKeys,
                 last_storage_time, day_start_times, current_time, items,
                 p_wake, c_wake, fpc, req, lastFlush, lastCleanup>>
  /\ UNCHANGED <<response, env>>
  /\ UNCHANGED <<registryVars, backendVars>>

\* lines 379, 401: if decoded_device_id not in telemetry_buffer
EventCheck ==
  /\ apc = "e_check"
  /\ apc' = IF InSeq(ev.dev, bufKeys) THEN "e_append" ELSE "e_create"
  /\ UNCHANGED <<trackStart, ingest, checkpoint>>
  /\ UNCHANGED <<now, store, nextId, device_telemetry_data, telemetry_buffer,
                 bufKeys, last_storage_time, day_start_times, current_time,
                 items, p_wake, c_wake, ev, fpc, req, nEvents, lastFlush,
                 lastCleanup>>
  /\ UNCHANGED <<response, env>>
  /\ UNCHANGED <<registryVars, backendVars>>

\* variant: the whole buffer dictionary is emptied
EventCreateAll ==
  /\ apc = "e_create"
  /\ telemetry_buffer' = [d \in Devices |-> <<>>]
  /\ bufKeys' = WithKey(bufKeys, ev.dev)
  /\ apc' = "e_append"
  /\ UNCHANGED <<trackStart, ingest, checkpoint>>
  /\ UNCHANGED <<now, store, nextId, device_telemetry_data,
                 last_storage_time, day_start_times, current_time, items,
                 p_wake, c_wake, ev, fpc, req, nEvents, lastFlush,
                 lastCleanup>>
  /\ UNCHANGED <<response, env>>
  /\ UNCHANGED <<registryVars, backendVars>>

\* lines 380, 402: telemetry_buffer[decoded_device_id] = []
EventCreate ==
  /\ apc = "e_create"
  /\ telemetry_buffer' = [telemetry_buffer EXCEPT ![ev.dev] = <<>>]
  /\ bufKeys' = WithKey(bufKeys, ev.dev)
  /\ apc' = "e_append"
  /\ UNCHANGED <<trackStart, ingest, checkpoint>>
  /\ UNCHANGED <<now, store, nextId, device_telemetry_data,
                 last_storage_time, day_start_times, current_time, items,
                 p_wake, c_wake, ev, fpc, req, nEvents, lastFlush,
                 lastCleanup>>
  /\ UNCHANGED <<response, env>>
  /\ UNCHANGED <<registryVars, backendVars>>

\* variant: the sample is put in front of the list
InsertFirst(list, sample) == <<sample>> \o list

\* lines 382, 404, 690: list.append(sample)
AppendSample(list, sample) == Append(list, sample)

\* lines 382, 404, 407: append, then update_checkpoint(event)
EventAppend ==
  /\ apc = "e_append"
  /\ telemetry_buffer' =
       [telemetry_buffer EXCEPT ![ev.dev] = AppendSample(@, ev.sample)]
  /\ ev' = NoLocal
  /\ apc' = "idle"
  /\ ingest' = IF ingest.dropped > 0
               THEN [ingest EXCEPT !.later = @ + 1] ELSE ingest
  /\ UNCHANGED trackStart
  /\ checkpoint' = ev
  /\ UNCHANGED <<now, store, nextId, device_telemetry_data, bufKeys,
                 last_storage_time, day_start_times, current_time, items,
                 p_wake, c_wake, fpc, req, nEvents, lastFlush, lastCleanup>>
  /\ UNCHANGED <<response, env>>
  /\ UNCHANGED <<registryVars, backendVars>>

\* ----------------------------------------------------------- test_telemetry
\* lines 651-665: data.get(plural, []) or data.get(singular, []), a number
\* becoming a one-element list
TestField(b, plural, singular) ==
  LET a == Get(b, plural, EmptyList)
      x == IF Truthy(a) THEN a ELSE Get(b, singular, EmptyList)
  IN IF x.t = "num" THEN Arr(x.v) ELSE x

TestReadings(b) ==
  [voltages |-> TestField(b, "voltages", "voltage"),
   currents |-> TestField(b, "currents", "current"),
   frequency |-> TestField(b, "frequency", "freq"),
   power |-> TestField(b, "power", "pwr")]

\* lines 642-684: a body that is not JSON raises and is answered with 500
TestPost(dev, p) ==
  /\ fpc = "idle"
  /\ apc # "exited"
  /\ MoreInputs
  /\ nEvents' = nEvents + 1
  /\ IF ~p.json
     THEN UNCHANGED <<device_telemetry_data, req, fpc>>
     ELSE /\ device_telemetry_data' =
               [device_telemetry_data EXCEPT
                  ![dev] = View(TestReadings(p.body), now)]
          /\ req' = [dev |-> dev, sample |-> TestReadings(p.body)]
          /\ fpc' = "t_check"
  /\ UNCHANGED <<trackStart, ingest, checkpoint>>
  /\ UNCHANGED <<now, store, nextId, telemetry_buffer, bufKeys,
                 last_storage_time, day_start_times, apc, current_time,
                 items, p_wake, c_wake, ev, lastFlush, lastCleanup>>
  /\ UNCHANGED <<response, env>>
  /\ UNCHANGED <<registryVars, backendVars>>

\* line 687: if device_id not in telemetry_buffer
TestCheck ==
  /\ fpc = "t_check"
  /\ apc # "exited"
  /\ fpc' = IF InSeq(req.dev, bufKeys) THEN "t_append" ELSE "t_create"
  /\ UNCHANGED <<trackStart, ingest, checkpoint>>
  /\ UNCHANGED <<now, store, nextId, device_telemetry_data, telemetry_buffer,
                 bufKeys, last_storage_time, day_start_times, apc,
                 current_time, items, p_wake, c_wake, ev, req, nEvents,
                 lastFlush, lastCleanup>>
  /\ UNCHANGED <<response, env>>
  /\ UNCHANGED <<registryVars, backendVars>>

\* the snapshot of the periodic task keeps the list this key had before
Orphaned(its, d, old) ==
  [i \in 1..Len(its) |->
     IF its[i].dev = d /\ ~its[i].orphan
     THEN [dev |-> d, orphan |-> TRUE, list |-> old]
     ELSE its[i]]

\* line 688: telemetry_buffer[device_id] = []
TestCreate ==
  /\ fpc = "t_create"
  /\ apc # "exited"
  /\ telemetry_buffer' = [telemetry_buffer EXCEPT ![req.dev] = <<>>]
  /\ bufKeys' = WithKey(bufKeys, req.dev)
  /\ items' = Orphaned(items, req.dev, telemetry_buffer[req.dev])
  /\ fpc' = "t_append"
  /\ UNCHANGED <<trackStart, ingest, checkpoint>>
  /\ UNCHANGED <<now, store, nextId, device_telemetry_data,
                 last_storage_time, day_start_times, apc, current_time,
                 p_wake, c_wake, ev, req, nEvents, lastFlush, lastCleanup>>
  /\ UNCHANGED <<response, env>>
  /\ UNCHANGED <<registryVars, backendVars>>

\* line 690
TestAppend ==
  /\ fpc = "t_append"
  /\ apc # "exited"
  /\ telemetry_buffer' =
       [telemetry_buffer EXCEPT ![req.dev] = AppendSample(@, req.sample)]
  /\ req' = NoLocal
  /\ fpc' = "idle"
  /\ UNCHANGED <<trackStart, ingest, checkpoint>>
  /\ UNCHANGED <<now, store, nextId, device_telemetry_data, bufKeys,
                 last_storage_time, day_start_times, apc, current_time,
                 items, p_wake, c_wake, ev, nEvents, lastFlush, lastCleanup>>
  /\ UNCHANGED <<response, env>>
  /\ UNCHANGED <<registryVars, backendVars>>

\* ------------------------------------------------------------ read endpoints
\* line 429
ConnectedFlag(data) == TRUE

\* lines 423-431: the entry of one device
TelemetryEntry(data) ==
  [present |-> TRUE, readings |-> data.readings,
   timestamp |-> data.timestamp, isConnected |-> ConnectedFlag(data)]

\* lines 422-433: one entry per key of device_telemetry_data
TelemetryBody(views) ==
  [d \in Devices |->
     IF views[d].present THEN TelemetryEntry(views[d]) ELSE NoView]

\* order_by(timestamp.desc()).all()
RECURSIVE NewestFirst(_)
NewestFirst(R) ==
  IF R = {} THEN <<>>
  ELSE <<Newest(R)>> \o NewestFirst(R \ {Newest(R)})

\* lines 468-476, 604-612: extend the list with every non-empty column
RECURSIVE Combined(_, _)
Combined(records, k) ==
  IF records = <<>> THEN <<>>
  ELSE (IF Truthy(Head(records).readings[k])
        THEN Head(records).readings[k].v ELSE <<>>)
         \o Combined(Tail(records), k)

CombinedReadings(records) == [k \in ArrayKeys |-> Arr(Combined(records, k))]

\* `column or []`
OrEmpty(x) == IF Truthy(x) THEN x ELSE EmptyList

RecordReadings(r) == [k \in ArrayKeys |-> OrEmpty(r.readings[k])]

DeviceRecords(S, d) == {r \in S : r.device_id = d}

NotFound(kind) == [kind |-> kind, status |-> 404]
ServerError(kind) == [kind |-> kind, status |-> 500]

\* lines 419-434
GetTelemetry ==
  /\ fpc = "idle"
  /\ apc # "exited"
  /\ MoreReadInputs
  /\ nEvents' = nEvents + 1
  /\ response' = [kind |-> "telemetry", status |-> 200,
                  body |-> TelemetryBody(device_telemetry_data)]
  /\ fpc' = "reply"
  /\ UNCHANGED <<now, store, nextId, device_telemetry_data, telemetry_buffer,
                 bufKeys, last_storage_time, day_start_times, apc,
                 current_time, items, p_wake, c_wake, ev, req, env,
                 lastFlush, lastCleanup, trackStart, ingest, checkpoint>>
  /\ UNCHANGED <<registryVars, backendVars>>

\* variant: the handler looks the device up in the defaultdict, which
\* creates its entry
GetDeviceTelemetryTouching(device_id, ok) ==
  /\ fpc = "idle"
  /\ apc # "exited"
  /\ MoreReadInputs
  /\ nEvents' = nEvents + 1
  /\ LET records == DeviceRecords(store, device_id)
         latest_record == Newest(records)
         current_day == latest_record.day_number
         current_day_records ==
           NewestFirst(DayRecords(store, device_id, current_day))
     IN response' =
          IF ~ok THEN ServerError("device")
          ELSE IF records = {} THEN NotFound("device")
          ELSE [kind |-> "device", status |-> 200,
                readings |-> CombinedReadings(current_day_records),
                timestamp |-> latest_record.timestamp,
                isConnected |-> TRUE,
                device_id |-> device_id,
                day_number |-> current_day,
                total_days |-> Cardinality({r.day_number : r \in records})]
  /\ fpc' = "reply"
  /\ device_telemetry_data' =
       [device_telemetry_data EXCEPT ![device_id].present = TRUE]
  /\ UNCHANGED <<now, store, nextId, telemetry_buffer,
                 bufKeys, last_storage_time, day_start_times, apc,
                 current_time, items, p_wake, c_wake, ev, req, env,
                 lastFlush, lastCleanup, trackStart, ingest, checkpoint>>
  /\ UNCHANGED <<registryVars, backendVars>>

\* lines 436-502; ok = FALSE is a query that raises
GetDeviceTelemetry(device_id, ok) ==
  /\ fpc = "idle"
  /\ apc # "exited"
  /\ MoreReadInputs
  /\ nEvents' = nEvents + 1
  /\ LET records == DeviceRecords(store, device_id)
         latest_record == Newest(records)
         current_day == latest_record.day_number
         current_day_records ==
           NewestFirst(DayRecords(store, device_id, current_day))
     IN response' =
          IF ~ok THEN ServerError("device")
          ELSE IF records = {} THEN NotFound("device")
          ELSE [kind |-> "device", status |-> 200,
                readings |-> CombinedReadings(current_day_records),
                timestamp |-> latest_record.timestamp,
                isConnected |-> TRUE,
                device_id |-> device_id,
                day_number |-> current_day,
                total_days |-> Cardinality({r.day_number : r \in records})]
  /\ fpc' = "reply"
  /\ UNCHANGED <<now, store, nextId, device_telemetry_data, telemetry_buffer,
                 bufKeys, last_storage_time, day_start_times, apc,
                 current_time, items, p_wake, c_wake, ev, req, env,
                 lastFlush, lastCleanup, trackStart, ingest, checkpoint>>
  /\ UNCHANGED <<registryVars, backendVars>>

\* lines 504-545; rows of one day number come in no particular order, so
\* the list of days is kept as a set
GetAllDeviceTelemetry(device_id, ok) ==
  /\ fpc = "idle"
  /\ apc # "exited"
  /\ MoreReadInputs
  /\ nEvents' = nEvents + 1
  /\ LET all_records == DeviceRecords(store, device_id)
     IN response' =
          IF ~ok THEN ServerError("all")
          ELSE IF all_records = {} THEN NotFound("all")
          ELSE [kind |-> "all", status |-> 200,
                device_id |-> device_id,
                days |-> {[readings |-> RecordReadings(r),
                           timestamp |-> r.timestamp,
                           isConnected |-> TRUE,
                           day_number |-> r.day_number] : r \in all_records},
                total_days |-> Cardinality(all_records)]
  /\ fpc' = "reply"
  /\ UNCHANGED <<now, store, nextId, device_telemetry_data, telemetry_buffer,
                 bufKeys, last_storage_time, day_start_times, apc,
                 current_time, items, p_wake, c_wake, ev, req, env,
                 lastFlush, lastCleanup, trackStart, ingest, checkpoint>>
  /\ UNCHANGED <<registryVars, backendVars>>

\* lines 547-583: .first() without an order returns any row of the day
GetDeviceTelemetryByDay(device_id, day_number, ok) ==
  /\ fpc = "idle"
  /\ apc # "exited"
  /\ MoreReadInputs
  /\ nEvents' = nEvents + 1
  /\ LET found == DayRecords(store, device_id, day_number)
     IN IF ~ok THEN response' = ServerError("day")
        ELSE IF found = {} THEN response' = NotFound("day")
        ELSE \E telemetry_data \in found :
               response' = [kind |-> "day", status |-> 200,
                            readings |-> RecordReadings(telemetry_data),
                            timestamp |-> telemetry_data.timestamp,
                            isConnected |-> TRUE,
                            device_id |-> device_id,
                            day_number |-> day_number]
  /\ fpc' = "reply"
  /\ UNCHANGED <<now, store, nextId, device_telemetry_data, telemetry_buffer,
                 bufKeys, last_storage_time, day_start_times, apc,
                 current_time, items, p_wake, c_wake, ev, req, env,
                 lastFlush, lastCleanup, trackStart, ingest, checkpoint>>
  /\ UNCHANGED <<registryVars, backendVars>>

\* lines 585-637
GetDeviceTelemetryDay1(device_id, ok) ==
  /\ fpc = "idle"
  /\ apc # "exited"
  /\ MoreReadInputs
  /\ nEvents' = nEvents + 1
  /\ LET day1_records == NewestFirst(DayRecords(store, device_id, 1))
     IN response' =
          IF ~ok THEN ServerError("day1")
          ELSE IF day1_records = <<>> THEN NotFound("day1")
          ELSE [kind |-> "day1", status |-> 200,
                readings |-> CombinedReadings(day1_records),
                timestamp |-> day1_records[1].timestamp,
                isConnected |-> TRUE,
                device_id |-> device_id,
                day_number |-> 1]
  /\ fpc' = "reply"
  /\ UNCHANGED <<now, store, nextId, device_telemetry_data, telemetry_buffer,
                 bufKeys, last_storage_time, day_start_times, apc,
                 current_time, items, p_wake, c_wake, ev, req, env,
                 lastFlush, lastCleanup, trackStart, ingest, checkpoint>>
  /\ UNCHANGED <<registryVars, backendVars>>

\* return jsonify(...): the reply leaves the handler
Reply ==
  /\ fpc = "reply"
  /\ apc # "exited"
  /\ response' = NoResponse
  /\ fpc' = "idle"
  /\ UNCHANGED <<now, store, nextId, device_telemetry_data, telemetry_buffer,
                 bufKeys, last_storage_time, day_start_times, apc,
                 current_time, items, p_wake, c_wake, ev, req, nEvents, env,
                 lastFlush, lastCleanup, trackStart, ingest, checkpoint>>
  /\ UNCHANGED <<registryVars, backendVars>>

Reads ==
  \/ GetTelemetry
  \/ \E d \in Devices, ok \in BOOLEAN :
       \/ GetDeviceTelemetry(d, ok)
       \/ GetAllDeviceTelemetry(d, ok)
       \/ GetDeviceTelemetryDay1(d, ok)
       \/ \E day \in valid_days : GetDeviceTelemetryByDay(d, day, ok)

\* ---------------------------------------------------- registration API
\* The server behind /api/devices, /api/register-device and
\* /api/unregister-device, which api_client_example.py calls, is not part of
\* the sources; it is modelled from section 4.1 of the specification.
Registered(reg) == {d \in RegistryIds : reg[d] # "Unregistered"}

\* variant: the entry is kept and only marked inactive
UnregisterEntryKept(reg, d) == [reg EXCEPT ![d] = "Inactive"]

\* Unregister clears the registry entry
UnregisterEntry(reg, d) == [reg EXCEPT ![d] = "Unregistered"]

\* Register(deviceId): AlreadyRegistered if present, else a device in
\* Registering; the first device registered becomes the default.
Register(d) ==
  /\ IF d \in Registered(registry)
     THEN /\ reg_reply' = "AlreadyRegistered"
          /\ UNCHANGED <<registry, default_device>>
     ELSE /\ reg_reply' = "ok"
          /\ registry' = [registry EXCEPT ![d] = "Registering"]
          /\ default_device' =
               IF default_device = NoDevice THEN d ELSE default_device
  /\ registered' = [registered EXCEPT !.now = @ \cup {d}]
  /\ UNCHANGED listing
  /\ UNCHANGED <<now, store, nextId, device_telemetry_data, telemetry_buffer,
                 bufKeys, last_storage_time, day_start_times, apc,
                 current_time, items, p_wake, c_wake, ev, fpc, req, nEvents,
                 response, env, lastFlush, lastCleanup, trackStart, ingest, checkpoint>>
  /\ UNCHANGED backendVars

\* the subscription requested by Register is set up out of band
Subscribe(d) ==
  /\ registry[d] = "Registering"
  /\ registry' = [registry EXCEPT ![d] = "Subscribed"]
  /\ UNCHANGED <<default_device, reg_reply, listing, registered>>
  /\ UNCHANGED <<now, store, nextId, device_telemetry_data, telemetry_buffer,
                 bufKeys, last_storage_time, day_start_times, apc,
                 current_time, items, p_wake, c_wake, ev, fpc, req, nEvents,
                 response, env, lastFlush, lastCleanup, trackStart, ingest, checkpoint>>
  /\ UNCHANGED backendVars

\* Unregister(deviceId): NotFound if absent, else the entry is cleared; a
\* new default is chosen among the remaining devices, or none.
Unregister(d) ==
  /\ IF d \notin Registered(registry)
     THEN /\ reg_reply' = "NotFound"
          /\ UNCHANGED <<registry, default_device>>
     ELSE /\ reg_reply' = "ok"
          /\ registry' = UnregisterEntry(registry, d)
          /\ IF default_device # d THEN UNCHANGED default_device
             ELSE IF Registered(registry) = {d}
                  THEN default_device' = NoDevice
                  ELSE default_device' \in Registered(registry) \ {d}
  /\ registered' = [now |-> registered.now \ {d},
                    gone |-> registered.gone \cup (registered.now \cap {d})]
  /\ UNCHANGED listing
  /\ UNCHANGED <<now, store, nextId, device_telemetry_data, telemetry_buffer,
                 bufKeys, last_storage_time, day_start_times, apc,
                 current_time, items, p_wake, c_wake, ev, fpc, req, nEvents,
                 response, env, lastFlush, lastCleanup, trackStart, ingest, checkpoint>>
  /\ UNCHANGED backendVars

\* ListDevices(): one entry per device of the registry
ListDevices ==
  /\ listing' = {[deviceId |-> d, status |-> registry[d]] :
                   d \in Registered(registry)}
  /\ reg_reply' = "listed"
  /\ UNCHANGED <<registry, default_device, registered>>
  /\ UNCHANGED <<now, store, nextId, device_telemetry_data, telemetry_buffer,
                 bufKeys, last_storage_time, day_start_times, apc,
                 current_time, items, p_wake, c_wake, ev, fpc, req, nEvents,
                 response, env, lastFlush, lastCleanup, trackStart, ingest, checkpoint>>
  /\ UNCHANGED backendVars

\* ------------------------------------------- backend: replies and endpoints
\* lines 67-78: the phases of a reply, built from the columns of a row
RECURSIVE ResponsePhases(_, _)
ResponsePhases(cols, n) ==
  IF n = 0 THEN <<>>
  ELSE IF cols[n].v # None
       THEN Append(ResponsePhases(cols, n - 1), cols[n])
       ELSE ResponsePhases(cols, n - 1)

\* lines 81-87: the reply built from a row
MeasurementOut(row) ==
  [id |-> row.id, device_id |-> row.device_id,
   enqueued_time |-> row.enqueued_time, created_at |-> row.created_at,
   phases |-> ResponsePhases(row.cols, 7)]

\* the orders in which a query with ORDER BY enqueued_time can return the
\* rows R; rows of equal enqueued_time come in any order
Ordered(R, descending) ==
  {q \in [1..Cardinality(R) -> R] :
     /\ \A a, b \in 1..Cardinality(R) : a # b => q[a] # q[b]
     /\ \A a, b \in 1..Cardinality(R) :
          a < b => IF descending
                   THEN q[a].enqueued_time >= q[b].enqueued_time
                   ELSE q[a].enqueued_time <= q[b].enqueued_time}

MeasurementsOut(q) == [n \in 1..Len(q) |-> MeasurementOut(q[n])]
DeviceMeasurements(device_id) ==
  {r \in measurements : r.device_id = device_id}

ApiError(endpoint, code) == [endpoint |-> endpoint, status |-> code, body |-> <<>>]
ApiOk(endpoint, code, body) == [endpoint |-> endpoint, status |-> code, body |-> body]

MoreRequests == nRequests < MaxRequests

\* line 12, deps.py lines 23-27: the router's dependency raised, no endpoint
\* and no get_db ran
Forbidden(endpoint) ==
  /\ api_response' = ApiError(endpoint, 403)
  /\ db_session' = "none"
  /\ UNCHANGED <<measurements, next_measurement_id>>

\* the try block of lines 56-61 can end in three ways
CreateOutcomes == {"saved", "commit_failed", "refresh_failed"}

\* lines 25-95
create_measurement(h, measurement, outcome) ==
  /\ MoreRequests
  /\ nRequests' = nRequests + 1
  /\ api_request' = [endpoint |-> "create", header |-> h]
  /\ IF ~get_api_key(h) THEN Forbidden("create")
     ELSE LET db_measurement ==
                [id |-> next_measurement_id,
                 device_id |-> measurement.device_id,
                 enqueued_time |-> measurement.enqueued_time,
                 created_at |-> utcnow,
                 cols |-> PhaseData(measurement.phases)]
          IN /\ db_session' = "closed"
             /\ CASE outcome = "saved" ->
                       /\ measurements' = measurements \cup {db_measurement}
                       /\ next_measurement_id' = next_measurement_id + 1
                       /\ api_response' =
                            ApiOk("create", 201, <<MeasurementOut(db_measurement)>>)
                  [] outcome = "commit_failed" ->
                       /\ UNCHANGED measurements
                       /\ next_measurement_id' \in
                            {next_measurement_id, next_measurement_id + 1}
                       /\ api_response' = ApiError("create", 500)
                  [] outcome = "refresh_failed" ->
                       /\ measurements' = measurements \cup {db_measurement}
                       /\ next_measurement_id' = next_measurement_id + 1
                       /\ api_response' = ApiError("create", 500)
  /\ UNCHANGED utcnow
  /\ UNCHANGED registryVars
  /\ UNCHANGED <<now, store, nextId, device_telemetry_data, telemetry_buffer,
                 bufKeys, last_storage_time, day_start_times, apc,
                 current_time, items, p_wake, c_wake, ev, fpc, req, nEvents,
                 response, env, lastFlush, lastCleanup, trackStart, ingest, checkpoint>>

\* a request to a read endpoint, and what every read endpoint leaves alone
BackendReadFrame(endpoint, h) ==
  /\ MoreRequests
  /\ nRequests' = nRequests + 1
  /\ api_request' = [endpoint |-> endpoint, header |-> h]
  /\ UNCHANGED utcnow
  /\ UNCHANGED registryVars
  /\ UNCHANGED <<now, store, nextId, device_telemetry_data, telemetry_buffer,
                 bufKeys, last_storage_time, day_start_times, apc,
                 current_time, items, p_wake, c_wake, ev, fpc, req, nEvents,
                 response, env, lastFlush, lastCleanup, trackStart, ingest, checkpoint>>

\* a read endpoint that passed the dependency replies with answer
BackendRead(answer) ==
  /\ api_response' = answer
  /\ db_session' = "closed"
  /\ UNCHANGED <<measurements, next_measurement_id>>

\* variant: the row inserted last instead of the row of the latest instant
get_latest_measurement_by_id(h, device_id) ==
  /\ BackendReadFrame("latest", h)
  /\ IF ~get_api_key(h) THEN Forbidden("latest")
     ELSE LET R == DeviceMeasurements(device_id)
          IN IF R = {} THEN BackendRead(ApiError("latest", 404))
             ELSE \E row \in R :
                    /\ \A r \in R : r.id <= row.id
                    /\ BackendRead(ApiOk("latest", 200, <<MeasurementOut(row)>>))

\* lines 97-145
get_latest_measurement(h, device_id) ==
  /\ BackendReadFrame("latest", h)
  /\ IF ~get_api_key(h) THEN Forbidden("latest")
     ELSE LET R == DeviceMeasurements(device_id)
          IN IF R = {} THEN BackendRead(ApiError("latest", 404))
             ELSE \E q \in Ordered(R, TRUE) :
                    BackendRead(ApiOk("latest", 200, <<MeasurementOut(q[1])>>))

\* variant: a measurement taken exactly at the threshold is left out
get_recent_measurements_after(h, device_id, hours) ==
  /\ BackendReadFrame("recent", h)
  /\ IF ~get_api_key(h) THEN Forbidden("recent")
     ELSE IF hours <= 0 THEN BackendRead(ApiError("recent", 400))
     ELSE LET R == {r \in DeviceMeasurements(device_id) :
                      r.enqueued_time > utcnow - hours}
          IN IF R = {} THEN BackendRead(ApiError("recent", 404))
             ELSE \E q \in Ordered(R, TRUE) :
                    BackendRead(ApiOk("recent", 200, MeasurementsOut(q)))

\* lines 147-216
get_recent_measurements(h, device_id, hours) ==
  /\ BackendReadFrame("recent", h)
  /\ IF ~get_api_key(h) THEN Forbidden("recent")
     ELSE IF hours <= 0 THEN BackendRead(ApiError("recent", 400))
     ELSE LET time_threshold == utcnow - hours
              R == {r \in DeviceMeasurements(device_id) :
                      r.enqueued_time >= time_threshold}
          IN IF R = {} THEN BackendRead(ApiError("recent", 404))
             ELSE \E q \in Ordered(R, TRUE) :
                    BackendRead(ApiOk("recent", 200, MeasurementsOut(q)))

\* variant: a measurement taken exactly at end_time is left out
get_measurements_before_end(h, device_id, start_time, end_time) ==
  /\ BackendReadFrame("range", h)
  /\ IF ~get_api_key(h) THEN Forbidden("range")
     ELSE IF start_time >= end_time THEN BackendRead(ApiError("range", 400))
     ELSE LET R == {r \in DeviceMeasurements(device_id) :
                      /\ r.enqueued_time >= start_time
                      /\ r.enqueued_time < end_time}
          IN IF R = {} THEN BackendRead(ApiError("range", 404))
             ELSE \E q \in Ordered(R, FALSE) :
                    BackendRead(ApiOk("range", 200, MeasurementsOut(q)))

\* lines 218-281
get_measurements_in_range(h, device_id, start_time, end_time) ==
  /\ BackendReadFrame("range", h)
  /\ IF ~get_api_key(h) THEN Forbidden("range")
     ELSE IF start_time >= end_time THEN BackendRead(ApiError("range", 400))
     ELSE LET R == {r \in DeviceMeasurements(device_id) :
                      /\ r.enqueued_time >= start_time
                      /\ r.enqueued_time <= end_time}
          IN IF R = {} THEN BackendRead(ApiError("range", 404))
             ELSE \E q \in Ordered(R, FALSE) :
                    BackendRead(ApiOk("range", 200, MeasurementsOut(q)))

\* a request to any of the four endpoints, sent with the header h
MeasurementsRequest(h) ==
  \/ \E measurement \in MeasurementCreate, outcome \in CreateOutcomes :
       create_measurement(h, measurement, outcome)
  \/ \E d \in Devices : get_latest_measurement(h, d)
  \/ \E d \in Devices, hours \in Hours : get_recent_measurements(h, d, hours)
  \/ \E d \in Devices, start_time \in EnqueuedTimes, end_time \in EnqueuedTimes :
       get_measurements_in_range(h, d, start_time, end_time)

\* an hour passes between two requests
BackendTick ==
  /\ MoreRequests
  /\ nRequests' = nRequests + 1
  /\ utcnow' = utcnow + 1
  /\ UNCHANGED <<measurements, next_measurement_id, api_request,
                 api_response, db_session>>
  /\ UNCHANGED registryVars
  /\ UNCHANGED <<now, store, nextId, device_telemetry_data, telemetry_buffer,
                 bufKeys, last_storage_time, day_start_times, apc,
                 current_time, items, p_wake, c_wake, ev, fpc, req, nEvents,
                 response, env, lastFlush, lastCleanup, trackStart, ingest, checkpoint>>

\* ------------------------------------------- manage_rolling_data by itself
\* manage_rolling_data called on any table and any day tracking entry:
\* lines 222-314, with the outcomes "commit" and "rollback" of PeriodicStore.
TrackInfos ==
  {NoTrack} \cup
  {[tracked |-> TRUE, start_time |-> StartTime, current_day |-> 1,
    absolute_day |-> a] : a \in 1..MaxAbsoluteDay}

MoreManageSteps == TicksAt(now) + nEvents < MaxManageSteps

manage_rolling_data(device_id, telemetry_data, outcome) ==
  /\ MoreManageSteps
  /\ nEvents' = nEvents + 1
  /\ LET info0 == InitTrack(day_start_times[device_id], now)
         info1 == AdvanceTrack(info0, now)
         committed == ManageCommit(store, device_id,
                        day_start_times[device_id], telemetry_data, now,
                        nextId)
     IN /\ day_start_times' = [day_start_times EXCEPT ![device_id] = info1]
        /\ trackStart' =
             [trackStart EXCEPT ![device_id] =
                IF day_start_times[device_id].tracked THEN @ ELSE now]
        /\ lastFlush' =
             [dev |-> device_id, seen |-> <<telemetry_data>>,
              outcome |-> outcome,
              days_elapsed |-> DaysElapsed(now - info0.start_time),
              absolute_day |-> info1.absolute_day,
              rows |-> IF outcome = "commit" THEN committed \ store ELSE {},
              deleted |-> IF outcome = "commit" THEN store \ committed ELSE {},
              batch |-> <<>>, cleared |-> FALSE]
        /\ IF outcome = "commit"
           THEN store' = committed /\ nextId' = nextId + 1
           ELSE UNCHANGED <<store, nextId>>
  /\ UNCHANGED <<now, device_telemetry_data, telemetry_buffer, bufKeys,
                 last_storage_time, apc, current_time, items, p_wake, c_wake,
                 ev, fpc, req, lastCleanup, ingest, checkpoint>>
  /\ UNCHANGED <<response, env>>
  /\ UNCHANGED <<registryVars, backendVars>>

\* time passes between two calls
ManageClock ==
  /\ MoreManageSteps
  /\ \E dt \in TickSteps : now' = now + dt
  /\ UNCHANGED <<store, nextId, device_telemetry_data, telemetry_buffer,
                 bufKeys, last_storage_time, day_start_times, apc,
                 current_time, items, p_wake, c_wake, ev, fpc, req, nEvents,
                 lastFlush, lastCleanup, trackStart, ingest, checkpoint>>
  /\ UNCHANGED <<response, env>>
  /\ UNCHANGED <<registryVars, backendVars>>

\* ---------------------------------------------------------- specification
Outcomes == {"commit", "rollback", "raise"}

Next ==
  \/ Tick(MoreInputs)
  \/ MainConfigError
  \/ \E ok \in BOOLEAN : MainStart(ok)
  \/ \E ok \in BOOLEAN : CleanupRun(ok)
  \/ PeriodicWake
  \/ PeriodicSkip
  \/ \E o \in Outcomes : PeriodicStore(o)
  \/ PeriodicClear
  \/ PeriodicSleep
  \/ \E dev \in Devices \cup {NoDevice}, p \in Payloads :
       EventReceive(dev, p, MoreInputs)
  \/ EventCheck
  \/ EventCreate
  \/ EventAppend
  \/ \E dev \in Devices, p \in Payloads : TestPost(dev, p)
  \/ TestCheck
  \/ TestCreate
  \/ TestAppend

Spec == Init /\ [][Next]_vars

\* The stream of one device over several days: no test posts, one payload.
DayDevices == {"D1"}
DayPayloads == {[json |-> TRUE, body |-> Body1]}

NextDays ==
  \/ Tick(TicksAt(now) < MaxDayTicks)
  \/ MainConfigError
  \/ \E ok \in BOOLEAN : MainStart(ok)
  \/ \E ok \in BOOLEAN : CleanupRun(ok)
  \/ PeriodicWake
  \/ PeriodicSkip
  \/ \E o \in Outcomes : PeriodicStore(o)
  \/ PeriodicClear
  \/ PeriodicSleep
  \/ \E dev \in DayDevices, p \in DayPayloads :
       EventReceive(dev, p, nEvents < MaxDayEvents)
  \/ EventCheck
  \/ EventCreate
  \/ EventAppend

SpecDays == Init /\ [][NextDays]_vars

\* The stream and the read endpoints.
NextReads ==
  \/ Tick(MoreReadInputs)
  \/ MainConfigError
  \/ \E ok \in BOOLEAN : MainStart(ok)
  \/ \E ok \in BOOLEAN : CleanupRun(ok)
  \/ PeriodicWake
  \/ PeriodicSkip
  \/ \E o \in Outcomes : PeriodicStore(o)
  \/ PeriodicClear
  \/ PeriodicSleep
  \/ \E dev \in Devices, p \in DayPayloads :
       EventReceive(dev, p, MoreReadInputs)
  \/ EventCheck
  \/ EventCreate
  \/ EventAppend
  \/ Reads
  \/ Reply

SpecReads == Init /\ [][NextReads]_vars

\* The registration API alone.
NextRegistry ==
  \/ \E d \in RegistryIds : Register(d)
  \/ \E d \in RegistryIds : Subscribe(d)
  \/ \E d \in RegistryIds : Unregister(d)
  \/ ListDevices

SpecRegistry == Init /\ [][NextRegistry]_vars

\* The stream of one device and the periodic task, with a clock that also
\* advances during a pass of the task.
InitRate ==
  /\ Init
  /\ store = {}
  /\ env = Environment(required_vars, required_parts)

NextRate ==
  \/ RateTick
  \/ \E ok \in BOOLEAN : MainStart(ok)
  \/ \E ok \in BOOLEAN : CleanupRun(ok)
  \/ PeriodicWake
  \/ PeriodicSkip
  \/ \E o \in Outcomes : PeriodicStore(o)
  \/ PeriodicClear
  \/ PeriodicSleep
  \/ \E dev \in DayDevices, p \in DayPayloads :
       EventReceive(dev, p, MoreRateInputs)
  \/ EventCheck
  \/ EventCreate
  \/ EventAppend

SpecRate == InitRate /\ [][NextRate]_vars

\* The stream of one device over more days than the ring has slots, with a
\* database that does not fail.
NextRing ==
  \/ Tick(TicksAt(now) < MaxRingTicks)
  \/ MainStart(TRUE)
  \/ CleanupRun(TRUE)
  \/ PeriodicWake
  \/ PeriodicSkip
  \/ PeriodicStore("commit")
  \/ PeriodicClear
  \/ PeriodicSleep
  \/ \E dev \in DayDevices, p \in DayPayloads :
       EventReceive(dev, p, nEvents < MaxRingEvents)
  \/ EventCheck
  \/ EventCreate
  \/ EventAppend

SpecRing == InitRate /\ [][NextRing]_vars

\* The asyncio loop under fair scheduling: the stream of one device, the
\* two tasks and the clock.  The loop runs every callback that is ready
\* (lines 723, 727, 789), so no step that stays enabled is put off for ever;
\* and the database does not fail for ever: a flush that is attempted again
\* and again commits at some time.
MoreLiveTicks == TicksAt(now) < MaxLiveTicks

NextLive ==
  \/ Tick(MoreLiveTicks)
  \/ MainStart(TRUE)
  \/ \E ok \in BOOLEAN : CleanupRun(ok)
  \/ PeriodicWake
  \/ PeriodicSkip
  \/ \E o \in Outcomes : PeriodicStore(o)
  \/ PeriodicClear
  \/ PeriodicSleep
  \/ \E dev \in DayDevices, p \in DayPayloads :
       EventReceive(dev, p, nEvents < MaxLiveEvents)
  \/ EventCheck
  \/ EventCreate
  \/ EventAppend

FairLoop ==
  /\ WF_vars(Tick(MoreLiveTicks))
  /\ WF_vars(MainStart(TRUE))
  /\ WF_vars(\E ok \in BOOLEAN : CleanupRun(ok))
  /\ WF_vars(PeriodicWake)
  /\ WF_vars(PeriodicSkip)
  /\ WF_vars(\E o \in Outcomes : PeriodicStore(o))
  /\ SF_vars(PeriodicStore("commit"))
  /\ WF_vars(PeriodicClear)
  /\ WF_vars(PeriodicSleep)
  /\ WF_vars(EventCheck)
  /\ WF_vars(EventCreate)
  /\ WF_vars(EventAppend)

SpecLive == InitRate /\ [][NextLive]_vars /\ FairLoop

\* The two threads after main has started with a valid environment, fed
\* with payloads that json.loads accepts: the structured shape, the degraded
\* shape, and a JSON object of neither shape.
IngestPayloads ==
  { [json |-> TRUE, body |-> Body1],
    [json |-> TRUE, body |-> Body3],
    [json |-> TRUE, body |-> BodyOther] }

InitIngest ==
  /\ Init
  /\ env = Environment(required_vars, required_parts)

NextIngest ==
  \/ Tick(MoreInputs)
  \/ MainStart(TRUE)
  \/ \E ok \in BOOLEAN : CleanupRun(ok)
  \/ PeriodicWake
  \/ PeriodicSkip
  \/ \E o \in Outcomes : PeriodicStore(o)
  \/ PeriodicClear
  \/ PeriodicSleep
  \/ \E dev \in Devices, p \in IngestPayloads :
       EventReceive(dev, p, MoreInputs)
  \/ EventCheck
  \/ EventCreate
  \/ EventAppend
  \/ \E dev \in Devices, p \in IngestPayloads : TestPost(dev, p)
  \/ TestCheck
  \/ TestCreate
  \/ TestAppend

SpecIngest == InitIngest /\ [][NextIngest]_vars

\* manage_rolling_data alone, on any table made of the rows of OldRows and
\* any day tracking entry of D1.
InitManage ==
  /\ InitProcess
  /\ env = Environment(required_vars, required_parts)
  /\ store \in SUBSET OldRows
  /\ measurements = {}
  /\ \E info \in TrackInfos :
       day_start_times = [d \in Devices |-> IF d = "D1" THEN info ELSE NoTrack]

NextManage ==
  \/ ManageClock
  \/ \E d \in Devices, outcome \in {"commit", "rollback"} :
       manage_rolling_data(d, BufferElement(Body1), outcome)

SpecManage == InitManage /\ [][NextManage]_vars

\* The measurements API alone.
NextBackend ==
  \/ BackendTick
  \/ \E h \in Headers : MeasurementsRequest(h)

\* The backend is a process of its own: it runs beside one IoT client, taken
\* with a valid environment and an empty telemetry_data table; its own
\* table is empty or holds the measurements of a previous run.
InitBackend ==
  /\ InitProcess
  /\ store = {}
  /\ day_start_times = [d \in Devices |-> NoTrack]
  /\ env = Environment(required_vars, required_parts)
  /\ measurements \in {{}, OldMeasurements}

SpecBackend == InitBackend /\ [][NextBackend]_vars

\* ================================================================= claims
Last(q) == q[Len(q)]
ThisRun(S) == {r \in S : r.id >= FirstId}
FlushClearStep == ~lastFlush.cleared /\ lastFlush'.cleared
CleanupStep ==
  /\ (apc = "boot" /\ apc' = "idle") \/ c_wake' # c_wake
  /\ lastCleanup'.passes >= 1

\* C1: whenever the periodic task flushes a device with a non-empty batch,
\* exactly one new row is persisted for it, the row carries the readings of
\* the last sample of the batch, and the batch is empty after the flush.
C1_FlushPersistsLatest ==
  [][FlushClearStep =>
       /\ Cardinality(lastFlush'.rows) = 1
       /\ \A r \in lastFlush'.rows :
            /\ r.device_id = lastFlush'.dev
            /\ r.readings = RowReadings(Last(lastFlush'.seen))
       /\ telemetry_buffer'[lastFlush'.dev] = <<>>]_vars

\* C2: once the initial cleanup has run, every device has at most one row
\* per slot 1..3 in every reachable state.
C2_OneRowPerSlot ==
  apc # "boot" =>
    \A d \in Devices, slot \in valid_days :
      Cardinality(DayRecords(store, d, slot)) <= 1

\* floor of the time elapsed between the start of day tracking and row r
SlotsElapsed(r) ==
  (r.timestamp - trackStart[r.device_id]) \div DAY_DURATION_SECONDS

\* C3 as stated: a row written once k*D has elapsed since tracking started,
\* k >= 1, is tagged ((k-1) mod 3) + 1.
C3_SlotFormulaAsStated ==
  \A r \in ThisRun(store) :
    SlotsElapsed(r) >= 1 => r.day_number = ((SlotsElapsed(r) - 1) % 3) + 1

\* C3 amended: a row written once k*D has elapsed since tracking started,
\* k >= 1, is tagged (k mod 3) + 1.
C3_SlotFormula ==
  \A r \in ThisRun(store) :
    SlotsElapsed(r) >= 1 => r.day_number = (SlotsElapsed(r) % 3) + 1

C3_Witness ==
  \E r \in ThisRun(store) : SlotsElapsed(r) >= 3

\* C4: with a slot duration of 120 s, the row flushed when tracking starts
\* is tagged 1 and a row flushed 130 s later is tagged 2.
C4_SlotTransition ==
  /\ DAY_DURATION_SECONDS = 120
  /\ \A r \in ThisRun(store) :
       /\ r.timestamp = trackStart[r.device_id] => r.day_number = 1
       /\ r.timestamp = trackStart[r.device_id] + 130 => r.day_number = 2

C4_Witness ==
  \E r1, r2 \in ThisRun(store) :
    /\ r1.device_id = r2.device_id
    /\ r1.timestamp = trackStart[r1.device_id]
    /\ r2.timestamp = r1.timestamp + 130

\* C5: right after a committed flush that advanced the slot to an absolute
\* day above 3, the reused slot holds only the row just inserted and the
\* device has rows in at most 3 distinct slots.
C5_RingOverwrite ==
  (lastFlush.outcome = "commit" /\ lastFlush.days_elapsed > 0
     /\ lastFlush.absolute_day > 3) =>
    /\ DayRecords(store, lastFlush.dev, CurrentDay(lastFlush.absolute_day))
         = lastFlush.rows
    /\ Cardinality({r.day_number :
                      r \in {x \in store : x.device_id = lastFlush.dev}}) <= 3

C5_Witness ==
  /\ lastFlush.outcome = "commit"
  /\ lastFlush.days_elapsed > 0
  /\ lastFlush.absolute_day > 3
  /\ \E r \in lastFlush.deleted :
       r.day_number = CurrentDay(lastFlush.absolute_day)

\* C6: a completed cleanup pass (of the task or of main) leaves no row with
\* a slot outside 1..3 and, in every slot, exactly the newest of the rows the
\* slot held before; rows already in that shape are untouched.
C6_CleanupPost ==
  [][CleanupStep =>
       /\ store' \subseteq store
       /\ \A r \in store' : r.day_number \in valid_days
       /\ \A d \in Devices, slot \in valid_days :
            LET before == DayRecords(store, d, slot)
                after == DayRecords(store', d, slot)
            IN /\ Cardinality(after) <= 1
               /\ before # {} => after # {}
               /\ \A r \in after, q \in before : q.timestamp <= r.timestamp
               /\ Cardinality(before) = 1 => after = before]_vars

C6_Witness ==
  lastCleanup.by = "task" /\ lastCleanup.removed > 0

\* C7: a cleanup pass that follows another pass with no write in between
\* deletes nothing.
C7_CleanupIdempotent ==
  [][(CleanupStep /\ lastCleanup.passes >= 1) => store' = store]_vars

C7_Witness ==
  lastCleanup.passes = 2 /\ lastCleanup.before > 0

\* C8: when the storage write of a flush fails, the batch is not cleared
\* and the last-storage time is not advanced.
C8_FailedFlushKeepsBatch ==
  lastFlush.outcome \in {"rollback", "raise"} => ~lastFlush.cleared

\* C9: when a flush clears a batch, the row it persisted carries the
\* readings of the last element the batch has at that moment.
C9_ClearMatchesPersisted ==
  (lastFlush.cleared /\ lastFlush.outcome = "commit"
     /\ lastFlush.batch # <<>>) =>
    \A r \in lastFlush.rows :
      r.readings = RowReadings(Last(lastFlush.batch))

\* a payload that is not JSON, or whose scalar field is not a number
Malformed(p) ==
  \/ ~p.json
  \/ /\ \A k \in ArrayKeys : k \notin DOMAIN p.body
     /\ \E k \in ScalarKeys : k \in DOMAIN p.body /\ p.body[k].t = "str"

\* C10: an event whose payload cannot be decoded changes no LiveView and no
\* batch, and process_event returns to the loop.
C10_DecodeFailureDropsEvent ==
  [][\A dev \in Devices, p \in Payloads :
       (EventReceive(dev, p, MoreInputs) /\ Malformed(p)) =>
         /\ UNCHANGED <<device_telemetry_data, telemetry_buffer, bufKeys>>
         /\ apc' = "idle"]_vars

C10_Witness ==
  ingest.dropped > 0 /\ ingest.later > 0

\* C11: every sample process_event appends to a batch has the four reading
\* fields voltages, currents, frequency and power, each an array, whichever
\* shape the payload had.
C11_BatchSampleUniform ==
  [][EventAppend =>
       LET sample == Last(telemetry_buffer'[ev.dev])
       IN \A k \in ArrayKeys : k \in DOMAIN sample /\ sample[k].t = "arr"]_vars

\* The threshold after which a silent device counts as offline.  The code
\* has no such setting; any value shorter than a day shows the same.
offlineThreshold == 2 * StorageInterval

\* C12: a read of the latest telemetry reports every device whose last
\* sample is older than offlineThreshold as not connected, with empty
\* reading arrays.
C12_OfflineReported ==
  response.kind = "telemetry" =>
    \A d \in Devices :
      (device_telemetry_data[d].present
         /\ now - device_telemetry_data[d].timestamp > offlineThreshold) =>
        /\ ~response.body[d].isConnected
        /\ \A k \in ArrayKeys : response.body[d].readings[k] = EmptyList

\* C13: every step leaves a device's batch as it is, empties it, or puts
\* the sample of the event being ingested for that device at its end; so a
\* batch lists its samples in the order of their ingestion.
C13_IngestionOrder ==
  [][\A d \in Devices :
       \/ telemetry_buffer'[d] = telemetry_buffer[d]
       \/ telemetry_buffer'[d] = <<>>
       \/ /\ ev.dev = d
          /\ telemetry_buffer'[d] = Append(telemetry_buffer[d], ev.sample)
       \/ /\ req.dev = d
          /\ telemetry_buffer'[d] = Append(telemetry_buffer[d], req.sample)]_vars

C13_Witness ==
  \E d \in Devices :
    /\ Len(telemetry_buffer[d]) >= 2
    /\ telemetry_buffer[d][1] # telemetry_buffer[d][2]

\* C14: when the periodic task passes a device whose buffer is empty, the
\* table, the device's last storage time, its day tracking and its batch
\* are unchanged, and the task goes on with the next device.
C14_EmptyBatchSkipped ==
  [][(/\ apc = "p_scan"
      /\ items # <<>>
      /\ BufferOf(Head(items)) = <<>>
      /\ (apc' # apc \/ items' = Tail(items))) =>
       /\ UNCHANGED <<store, nextId, last_storage_time, day_start_times,
                      telemetry_buffer>>
       /\ items' = Tail(items)
       /\ apc' = "p_scan"]_vars

\* the only sample delivered was flushed in an earlier pass, and this pass
\* went through the device's empty buffer
C14_Witness ==
  /\ apc = "p_scan"
  /\ items = <<>>
  /\ fpc = "idle"
  /\ nEvents = 1
  /\ Len(bufKeys) = 1
  /\ telemetry_buffer[bufKeys[1]] = <<>>
  /\ last_storage_time[bufKeys[1]] > 0
  /\ last_storage_time[bufKeys[1]] < current_time
  /\ lastFlush = NoFlush

\* the periodic task hands a sample of d to manage_rolling_data
FlushStep(d) ==
  /\ apc = "p_scan"
  /\ items # <<>>
  /\ Head(items).dev = d
  /\ \E o \in Outcomes : PeriodicStore(o)

\* C15: a flush of a device that is e = floor((now - start_time) / D) days
\* past its day start adds e to absolute_day and e * D to start_time, and
\* changes neither when e = 0; the first flush starts the tracking with
\* absolute_day 1; no other step changes them, so absolute_day never
\* decreases.
C15_SlotAdvance ==
  [][\A d \in Devices :
       LET old == day_start_times[d]
           new == day_start_times'[d]
           e == (now - old.start_time) \div DAY_DURATION_SECONDS
       IN /\ new.absolute_day >= old.absolute_day
          /\ new.tracked => new.absolute_day >= 1
          /\ ~FlushStep(d) => new = old
          /\ (FlushStep(d) /\ ~old.tracked) =>
               new.absolute_day = 1 /\ new.start_time = now
          /\ (FlushStep(d) /\ old.tracked /\ e >= 1) =>
               /\ new.absolute_day = old.absolute_day + e
               /\ new.start_time = old.start_time + e * DAY_DURATION_SECONDS
          /\ (FlushStep(d) /\ old.tracked /\ e = 0) => new = old]_vars

\* a flush two days or more after the day start, not on a day boundary
C15_Witness ==
  /\ lastFlush.dev # NoDevice
  /\ lastFlush.days_elapsed >= 2
  /\ day_start_times[lastFlush.dev].absolute_day >= 3
  /\ day_start_times[lastFlush.dev].start_time < now

\* a step in which a flush, a cleanup pass or the decoding of an event
\* raises
FailureStep ==
  \/ \E o \in {"rollback", "raise"} : PeriodicStore(o)
  \/ CleanupRun(FALSE)
  \/ MainStart(FALSE)
  \/ \E dev \in Devices, p \in Payloads :
       EventReceive(dev, p, MoreInputs) /\ DecodeRaises(p)

\* C16: an exception raised while a device is flushed, while a cleanup
\* pass runs or while an event is processed does not end the process, so
\* the periodic task, the cleanup task and the receive callback go on.
C16_BackgroundNeverStops ==
  [][FailureStep => apc' # "exited"]_vars

\* a required variable is missing, or the connection string lacks a part
InvalidEnvironment ==
  \/ \E v \in {"EVENTHUB_CONNECTION_STRING", "CONSUMER_GROUP", "DEVICE_ID"} :
       v \notin env.vars
  \/ \E key \in {"Endpoint", "SharedAccessKeyName", "SharedAccessKey",
                 "EntityPath"} : key \notin env.parts

\* C17: with an invalid configuration every step leaves the asyncio side at
\* the start or ends the process: no task runs, no cleanup pass, no flush
\* and no stream event; and once main has raised no step follows, the load
\* is not retried.
C17_ConfigErrorFatal ==
  [][/\ InvalidEnvironment =>
          /\ apc' \in {"boot", "exited"}
          /\ p_wake' = 0 /\ c_wake' = 0 /\ current_time' = 0
          /\ lastCleanup' = NoCleanup /\ lastFlush' = NoFlush
          /\ ev' = NoLocal /\ ingest' = ingest
          /\ nextId' = nextId /\ store' = store
     /\ apc = "exited" => UNCHANGED vars]_vars

C17_Witness ==
  /\ apc = "exited"
  /\ "DEVICE_ID" \notin env.vars
  /\ env.parts = required_parts

\* a read endpoint computes its reply
ReadStep == fpc = "idle" /\ fpc' = "reply"

\* C18: no read changes a LiveView (connected flag, cached readings, or
\* the presence of an entry), a batch, a last storage time, the day
\* tracking or the table, neither when it computes its reply nor when it
\* returns it.
C18_ReadsChangeNothing ==
  [][(ReadStep \/ (fpc = "reply" /\ fpc' = "idle")) =>
       UNCHANGED <<device_telemetry_data, telemetry_buffer, bufKeys,
                   last_storage_time, day_start_times, store>>]_vars

\* a read of the rows of a device that has no LiveView entry is answered
C18_Witness ==
  /\ fpc = "reply"
  /\ response.kind \in {"device", "all", "day", "day1"}
  /\ response.status = 200
  /\ ~device_telemetry_data[response.device_id].present
  /\ \E d \in Devices : device_telemetry_data[d].present

\* C19: what the listing returns is exactly the set of the devices that
\* were registered and not unregistered since.
C19_ListingTracksRegistration ==
  [][ListDevices => {e.deviceId : e \in listing'} = registered.now]_vars

\* the last call was a listing that returned a device, taken after another
\* device was registered and then unregistered
C19_Witness ==
  /\ reg_reply = "listed"
  /\ listing # {}
  /\ registered.gone \ registered.now # {}


\* C20: a request to a measurements endpoint (create, latest, recent, range)
\* runs the endpoint only if its X-API-Key header equals the configured key;
\* sent without the header or with another key it is answered 403, returns
\* no measurement, opens no database session and leaves the table as it was.
MeasurementsRequestStep == nRequests' # nRequests /\ utcnow' = utcnow
C20_ApiKeyGate ==
  [][MeasurementsRequestStep =>
       IF api_request'.header.present /\ api_request'.header.value = API_KEY
       THEN api_response'.status # 403 /\ db_session' = "closed"
       ELSE /\ api_response'.status = 403
            /\ api_response'.body = <<>>
            /\ db_session' = "none"
            /\ measurements' = measurements
            /\ next_measurement_id' = next_measurement_id]_vars

\* a create sent with another key than the configured one, rejected when
\* measurements were already stored
C20_Witness ==
  /\ api_request.endpoint = "create"
  /\ api_request.header.present
  /\ api_response.status = 403
  /\ db_session = "none"
  /\ measurements # {}

\* C21: a valid create request that is stored is answered with the phases it
\* submitted, in the same order and with the same v, i, p, f, pf, null values
\* included; and the latest measurement of a device carries the phases of
\* the row it is built from.
KeyHeader == [present |-> TRUE, value |-> API_KEY]
RowPhases(row) ==
  SubSeq([n \in PhaseColumns |-> row.cols[n]], 1,
         Cardinality({n \in PhaseColumns : row.cols[n] # NullPhase}))
C21_CreateRoundTrip ==
  [][/\ \A measurement \in MeasurementCreate :
          create_measurement(KeyHeader, measurement, "saved") =>
            api_response'.body[1].phases = measurement.phases
     /\ (\E d \in Devices : get_latest_measurement(KeyHeader, d)) =>
          (api_response'.status = 200 =>
             \E row \in measurements :
               /\ row.id = api_response'.body[1].id
               /\ api_response'.body[1].phases = RowPhases(row))]_vars

BodyOf(R) == {MeasurementOut(r) : r \in R}
BodyIsExactly(body, R) ==
  /\ Len(body) = Cardinality(R)
  /\ {body[n] : n \in 1..Len(body)} = BodyOf(R)
C25_TrackedSlotConsistent ==
  \A d \in Devices :
    day_start_times[d].tracked =>
      day_start_times[d].current_day =
        ((day_start_times[d].absolute_day - 1) % 3) + 1

\* C26: a call of manage_rolling_data that commits inserts one row, of its
\* device, tagged with a day in {1, 2, 3}, whatever the absolute day and the
\* time elapsed, and leaves no row of that device with a tag outside
\* {1, 2, 3}; a call that rolls back leaves the table as it was.
C26_SlotTagRange ==
  [][\A d \in Devices :
       /\ manage_rolling_data(d, BufferElement(Body1), "commit") =>
            /\ Cardinality(store' \ store) = 1
            /\ \A r \in store' \ store :
                 r.device_id = d /\ r.day_number \in {1, 2, 3}
            /\ \A r \in store' : r.device_id = d => r.day_number \in {1, 2, 3}
       /\ manage_rolling_data(d, BufferElement(Body1), "rollback") =>
            store' = store]_vars

\* a commit on an absolute day above 3 that removed a row tagged outside
\* {1, 2, 3}
C26_Witness ==
  /\ lastFlush.outcome = "commit"
  /\ lastFlush.absolute_day > 3
  /\ lastFlush.days_elapsed >= 1
  /\ \E r \in lastFlush.deleted : r.day_number \notin {1, 2, 3}

IngestStep(d) ==
  \/ apc = "idle" /\ apc' = "e_check" /\ ev'.dev = d
  \/ apc \in {"e_check", "e_create", "e_append"} /\ apc' # apc /\ ev.dev = d
  \/ fpc = "idle" /\ fpc' = "t_check" /\ req'.dev = d
  \/ fpc \in {"t_check", "t_create", "t_append"} /\ fpc' # fpc /\ req.dev = d
OwnFlushStep(d) ==
  /\ items # <<>>
  /\ Head(items).dev = d
  /\ \/ apc = "p_scan" /\ apc' # "p_scan"
     \/ apc = "p_clear" /\ apc' # "p_clear"
StoredOf(S, d) == {r \in S : r.device_id = d}

\* C28: a step that ingests an event for a device, from the stream or from
\* the test endpoint, or that flushes a device, leaves every other device's
\* LiveView, batch, last storage time, day tracking and stored rows as they
\* were; and a device's LiveView, batch, last storage time and day tracking
\* change in no other step than its own.
C28_PerDeviceIsolation ==
  [][\A d \in Devices :
       /\ (IngestStep(d) \/ OwnFlushStep(d)) =>
            \A o \in Devices \ {d} :
              /\ device_telemetry_data'[o] = device_telemetry_data[o]
              /\ telemetry_buffer'[o] = telemetry_buffer[o]
              /\ last_storage_time'[o] = last_storage_time[o]
              /\ day_start_times'[o] = day_start_times[o]
              /\ StoredOf(store', o) = StoredOf(store, o)
       /\ (\/ device_telemetry_data'[d] # device_telemetry_data[d]
           \/ telemetry_buffer'[d] # telemetry_buffer[d]
           \/ last_storage_time'[d] # last_storage_time[d]
           \/ day_start_times'[d] # day_start_times[d]) =>
            (IngestStep(d) \/ OwnFlushStep(d))]_vars

\* D1 was flushed and a row written for it while the other device has a
\* LiveView, a batch waiting and a row of its own
C28_Witness ==
  /\ lastFlush.dev = "D1"
  /\ lastFlush.outcome = "commit"
  /\ lastFlush.cleared
  /\ device_telemetry_data["D2"].present
  /\ telemetry_buffer["D2"] # <<>>
  /\ StoredOf(store, "D2") # {}

\* a JSON object of neither the structured nor the degraded shape
Unrecognised(b) ==
  /\ ~IsStructured(b)
  /\ \A k \in ScalarKeys : k \notin DOMAIN b
AllEmpty(sample) == \A k \in ArrayKeys : RowReadings(sample)[k] = EmptyList

\* C29: a stream event whose payload is valid JSON of neither shape is
\* dropped: it changes neither the device's LiveView nor its batch, and no
\* sample whose four reading arrays are all empty is in a batch.
C29_UnrecognisedDropped ==
  [][/\ \A dev \in Devices, p \in IngestPayloads :
          (EventReceive(dev, p, MoreInputs) /\ Unrecognised(p.body)) =>
            /\ device_telemetry_data'[dev] = device_telemetry_data[dev]
            /\ apc' = "idle"
     /\ \A d \in Devices :
          \A n \in 1..Len(telemetry_buffer'[d]) :
            ~AllEmpty(telemetry_buffer'[d][n])]_vars

\* C30: whenever no ingestion is in progress in either thread, the readings
\* of the LiveView of every device whose batch is not empty are the readings
\* of the last sample of that batch.
C30_LiveViewIsBatchTail ==
  (apc \notin {"e_check", "e_create", "e_append"} /\ fpc = "idle") =>
    \A d \in Devices :
      telemetry_buffer[d] # <<>> =>
        device_telemetry_data[d].readings
          = RowReadings(Last(telemetry_buffer[d]))

\* C31: a call of manage_rolling_data that fails and rolls back leaves the
\* table as it was and, for a device whose day tracking has begun, leaves the
\* start_time and the absolute_day of its tracking entry as they were before
\* the call, so that the retried call sees the same elapsed days.
C31_FailedFlushAllOrNothing ==
  [][\A d \in Devices :
       manage_rolling_data(d, BufferElement(Body1), "rollback") =>
         /\ store' = store
         /\ day_start_times[d].tracked =>
              /\ day_start_times'[d].start_time = day_start_times[d].start_time
              /\ day_start_times'[d].absolute_day
                   = day_start_times[d].absolute_day]_vars

\* C32: right after a committed flush of a device at time t, every row the
\* table holds for that device was written later than t - 3 * D, also when
\* two or more day boundaries passed since the previous flush.
C32_NoRecordOutlivesRing ==
  lastFlush.outcome = "commit" =>
    \A r \in StoredOf(store, lastFlush.dev) :
      r.timestamp > now - 3 * DAY_DURATION_SECONDS

\* C33: whenever a device's batch is not empty while the clock has yet to
\* advance, then with a fair loop and a database that does not fail for
\* ever, a flush of that device eventually commits a row and empties the
\* batch.
C33_BufferedEventuallyFlushed ==
  \A d \in DayDevices :
    (telemetry_buffer[d] # <<>> /\ MoreLiveTicks)
      ~> (/\ lastFlush.dev = d
          /\ lastFlush.outcome = "commit"
          /\ lastFlush.cleared
          /\ telemetry_buffer[d] = <<>>)

\* C34: after every flush of a device, committed or not, the start_time of
\* its day tracking satisfies 0 <= now - start_time < D; and in every
\* reachable state the start_time of a tracked device is the time its
\* tracking began plus (absolute_day - 1) * D.
C34_SlotWindow ==
  [][\A d \in Devices :
       /\ FlushStep(d) =>
            /\ 0 <= now - day_start_times'[d].start_time
            /\ now - day_start_times'[d].start_time < DAY_DURATION_SECONDS
       /\ day_start_times'[d].tracked =>
            day_start_times'[d].start_time =
              trackStart'[d]
                + (day_start_times'[d].absolute_day - 1) * DAY_DURATION_SECONDS]_vars

\* a flush that failed two days or more after the day start, not on a day
\* boundary
C34_Witness ==
  /\ lastFlush.dev # NoDevice
  /\ lastFlush.outcome = "rollback"
  /\ lastFlush.days_elapsed >= 2
  /\ day_start_times[lastFlush.dev].start_time < now
  /\ day_start_times[lastFlush.dev].start_time > trackStart[lastFlush.dev]

\* C35: the checkpoint is updated only by the step of process_event that
\* appends the event's sample to the batch of its device, after the LiveView
\* of that device was written, and it is updated to that event; an event
\* without device id, or whose payload cannot be decoded, leaves the
\* checkpoint as it was and ends process_event, so the checkpoint is never
\* that of such an event.
C35_CheckpointFollowsBuffering ==
  [][/\ checkpoint' # checkpoint =>
          /\ apc = "e_append"
          /\ checkpoint' = ev
          /\ device_telemetry_data[ev.dev].present
          /\ telemetry_buffer'[ev.dev] # <<>>
          /\ Last(telemetry_buffer'[ev.dev]) = ev.sample
     /\ \A dev \in Devices \cup {NoDevice}, p \in Payloads :
          (EventReceive(dev, p, MoreInputs) /\ (dev = NoDevice \/ Malformed(p)))
            => checkpoint' = checkpoint /\ apc' = "idle"
     /\ checkpoint' # NoLocal =>
          /\ checkpoint'.dev \in Devices
          /\ \E p \in Payloads :
               ~Malformed(p) /\ checkpoint'.sample = BufferElement(p.body)]_vars

\* an event was checkpointed after another one was dropped
C35_Witness ==
  /\ checkpoint # NoLocal
  /\ ingest.dropped > 0
  /\ ingest.later > 0
  /\ apc = "idle"

\* C36: as long as main has not completed its initial cleanup, nothing has
\* been ingested and nothing flushed: no device has a LiveView or a batch,
\* no event of the stream is being processed, and neither the periodic
\* storage task nor the cleanup task has begun an iteration.
C36_StartupOrdering ==
  apc = "boot" =>
    /\ \A d \in Devices :
         /\ ~device_telemetry_data[d].present
         /\ telemetry_buffer[d] = <<>>
    /\ bufKeys = <<>>
    /\ ev = NoLocal
    /\ checkpoint = NoLocal
    /\ items = <<>> /\ current_time = 0 /\ p_wake = 0
    /\ c_wake = 0 /\ lastCleanup = NoCleanup
    /\ lastFlush = NoFlush /\ nextId = FirstId

\* C37: a create request that is answered with a 500 error leaves the table
\* of measurements as it was before the request; and every request that
\* passed the API-key dependency, whatever its endpoint and its outcome,
\* ends with the session that get_db opened for it closed.
C37_CreateFailureLeavesStore ==
  [][MeasurementsRequestStep =>
       /\ (api_request'.endpoint = "create" /\ api_response'.status = 500) =>
            measurements' = measurements
       /\ api_response'.status # 403 => db_session' = "closed"]_vars
====
